---- MODULE Spec2Model ----
(***************************************************************************)
(* Inline layout of servo (src/servo/layout/inline.rs): the TextRunScanner *)
(* that coalesces adjacent unscanned text boxes into text runs, and the    *)
(* LineboxScanner that packs the boxes of an inline flow into lines.       *)
(*                                                                         *)
(* Boxes are shared handles (@RenderBox): the model keeps them in a heap   *)
(* `box` indexed by box id, and every box sequence holds ids.  Indices and *)
(* BoxRange fields are 0-based as in the source; a TLA+ sequence is read   *)
(* at index + 1.                                                           *)
(***************************************************************************)
EXTENDS Integers, Sequences, FiniteSets, TLC

VARIABLES
  box,            \* heap: box id -> RenderBox (kind, width, origin.x, text, style)
  boxes,          \* InlineFlowData.boxes
  lines,          \* InlineFlowData.lines
  elems,          \* InlineFlowData.elems (the spans of the NodeRanges)
  pc,             \* position of the running scan
  in_clump,       \* TextRunScanner
  clump_start,
  clump_end,
  out_boxes,      \* scan_for_runs: the local out_boxes
  ri,             \* scan_for_runs: the loop index
  before,         \* history: the flow as the running scan found it
  returned,       \* the ClumpRangeRelation a call of relation_of_clump_and_range returned
  new_boxes,      \* LineboxScanner
  work_list,
  pending_line,
  line_spans,
  li,             \* scan_for_lines: the local i
  cur,            \* history: the box last handed to try_append_to_line (0: none)
  last,           \* history: which branch of try_append_to_line returned last
  taken,          \* history: ids of the boxes acquired so far by the main loop
  split_of,       \* history: fragment id -> [parent, side] of the split that made it
  scans           \* history: number of scans started on the flow

flowVars == <<box, boxes, lines, elems>>
runVars  == <<in_clump, clump_start, clump_end, out_boxes, ri, before, returned>>
lineVars == <<new_boxes, work_list, pending_line, line_spans, li, cur, last, taken, split_of>>
vars     == <<flowVars, pc, runVars, lineVars, scans>>

(***************************************************************************)
(* Bounds of the model.                                                    *)
(***************************************************************************)
MaxBoxes  == 3     \* longest input box sequence
MaxSplits == 2     \* splits that produce fragments in one line scan
MaxScans  == 2     \* scans run on one flow
MaxElems  == 2     \* element spans of a flow

\* the container width and the box widths of the line scans (in au): the
\* widths of the unsplittable boxes, of the text boxes, and of the left
\* fragments a split can make
FlowWidth     == 100
GenericWidths == {20, 50, 60, 200}
TextWidths    == {50, 180}
FragWidths    == {30, 90, 120}

U16(n) == n % 65536

EmptyBoxRange == [start |-> 0, len |-> 0]

EmptyPendingLine == [span |-> EmptyBoxRange, width |-> 0]

RenderBox(k, w, t, s) == [kind |-> k, w |-> w, x |-> 0, text |-> t, style |-> s]

NextId == Cardinality(DOMAIN box) + 1

RECURSIVE SumWidths(_, _, _)
\* sum of the widths of the boxes seq[from+1 .. to] (0-based [from, to))
SumWidths(seq, from, to) ==
  IF to <= from THEN 0 ELSE SumWidths(seq, from, to - 1) + box[seq[to]].w

(***************************************************************************)
(* RenderBox interface used by the line scanner (layout/box.rs).           *)
(***************************************************************************)
can_split(b) == box[b].kind = "Text"

\* The results split_to_width may hand back for in_box: the four variants of
\* its result type; SplitUnnecessary says that the untouched box fits the
\* available width; the fragments of a split share the width of the box, and
\* the left one fits the available width exactly when the split "did fit".
split_to_width(in_box, max_width, nsplits) ==
  {[tag |-> "CannotSplit", lw |-> 0, rw |-> 0]}
  \cup {[tag |-> "SplitUnnecessary", lw |-> 0, rw |-> 0] :
          fits \in {f \in {TRUE} : box[in_box].w <= max_width}}
  \cup {[tag |-> IF lw <= max_width THEN "SplitDidFit" ELSE "SplitDidNotFit",
         lw |-> lw, rw |-> box[in_box].w - lw] :
          lw \in {f \in FragWidths : f < box[in_box].w /\ nsplits < MaxSplits}}

NoSplit == [tag |-> "NoSplit", lw |-> 0, rw |-> 0]

(***************************************************************************)
(* LineboxScanner                                                          *)
(***************************************************************************)
\* push_box_to_line, were it to leave the width of the pending line as it is
push_box_to_line_keeping_width(pl, n, w) ==
  [span  |-> [start |-> IF pl.span.len = 0 THEN U16(n) ELSE pl.span.start,
              len   |-> U16(pl.span.len + 1)],
   width |-> pl.width]

\* push_box_to_line: the pending line after the unconditional push of a box
\* of width w when the output holds n boxes
push_box_to_line(pl, n, w) ==
  [span  |-> [start |-> IF pl.span.len = 0 THEN U16(n) ELSE pl.span.start,
              len   |-> U16(pl.span.len + 1)],
   width |-> pl.width + w]

\* try_append_to_line on in_box, given the result o of split_to_width should
\* the code reach that call: whether a box was appended, the width pushed to
\* the line (left: a `left` fragment), what goes to the head of the work list
try_append_to_line(in_box, o) ==
  LET remaining_width == FlowWidth - pending_line.width
      in_box_width    == box[in_box].w
      line_is_empty   == pending_line.span.len = 0
  IN  IF in_box_width <= remaining_width
        THEN [appended |-> TRUE, push |-> "in_box", defer |-> "none", branch |-> "fits"]
      ELSE IF ~can_split(in_box)
        THEN IF line_is_empty
               THEN [appended |-> TRUE, push |-> "in_box", defer |-> "none",
                     branch |-> "overflow"]
               ELSE [appended |-> FALSE, push |-> "none", defer |-> "none",
                     branch |-> "cannot_split_box"]
      ELSE CASE o.tag = "CannotSplit" ->
                  [appended |-> FALSE, push |-> "none", defer |-> "none",
                   branch |-> "CannotSplit"]
             [] o.tag = "SplitUnnecessary" ->
                  [appended |-> TRUE, push |-> "in_box", defer |-> "none",
                   branch |-> "SplitUnnecessary"]
             [] o.tag = "SplitDidFit" ->
                  [appended |-> TRUE, push |-> "left", defer |-> "right",
                   branch |-> "SplitDidFit"]
             [] o.tag = "SplitDidNotFit" ->
                  IF line_is_empty
                    THEN [appended |-> TRUE, push |-> "left", defer |-> "right",
                          branch |-> "SplitDidNotFit_empty"]
                    ELSE [appended |-> FALSE, push |-> "none", defer |-> "in_box",
                          branch |-> "SplitDidNotFit"]

\* whether try_append_to_line reaches its call of split_to_width for in_box
reaches_split(in_box) ==
  /\ box[in_box].w > FlowWidth - pending_line.width
  /\ can_split(in_box)

\* the boxes of the pending span that flush_current_line can index in the
\* flow's box list before an index runs past its end
flush_in_bounds(pl) == U16(pl.span.start + pl.span.len) <= Len(boxes)

\* set_offsets, were it to clear the width of every box along with its offset
set_offsets_clearing_width(heap, pl) ==
  [id \in DOMAIN heap |-> [heap[id] EXCEPT !.x = 0, !.w = 0]]

\* flush_current_line, the loop that sets the horizontal offsets: it walks
\* the indices of the pending span in the FLOW's box list
set_offsets(heap, pl) ==
  LET first   == pl.span.start
      stop    == IF flush_in_bounds(pl) THEN U16(pl.span.start + pl.span.len)
                 ELSE Len(boxes)
      written == {i \in first .. (stop - 1) : TRUE}
  IN  [id \in DOMAIN heap |->
         IF \E i \in written : boxes[i + 1] = id
           THEN [heap[id] EXCEPT !.x =
                   SumWidths(boxes, first, CHOOSE i \in written : boxes[i + 1] = id)]
           ELSE heap[id]]

\* the boxes a result of try_append_to_line pushes and defers; l and r are
\* the fragments of the split
pushed_boxes(r, in_box, l) ==
  CASE r.push = "in_box" -> <<in_box>>
    [] r.push = "left"   -> <<l>>
    [] OTHER             -> <<>>

\* deferred_boxes, were the original box never put on the work list
deferred_boxes_never_in_box(r, in_box, rt) ==
  CASE r.defer = "right" -> <<rt>>
    [] OTHER             -> <<>>

deferred_boxes(r, in_box, rt) ==
  CASE r.defer = "in_box" -> <<in_box>>
    [] r.defer = "right"  -> <<rt>>
    [] OTHER              -> <<>>

NSplits == Cardinality(DOMAIN split_of) \div 2

\* one turn of the main loop of scan_for_lines once cur_box is acquired:
\* try_append_to_line, then flush_current_line if nothing was appended
consider_box(cur_box, rest, i2) ==
  \E o \in (IF reaches_split(cur_box)
              THEN split_to_width(cur_box, FlowWidth - pending_line.width, NSplits)
              ELSE {NoSplit}) :
    LET r     == try_append_to_line(cur_box, o)
        l     == NextId
        rt    == NextId + 1
        frag  == r.push = "left"
        heap1 == IF frag
                   THEN box @@ (l :> RenderBox("Text", o.lw, <<>>, box[cur_box].style))
                            @@ (rt :> RenderBox("Text", o.rw, <<>>, box[cur_box].style))
                   ELSE box
        push  == pushed_boxes(r, cur_box, l)
        pl1   == IF push = <<>> THEN pending_line
                 ELSE push_box_to_line(pending_line, Len(new_boxes), heap1[push[1]].w)
    IN  /\ new_boxes' = new_boxes \o push
        /\ work_list' = deferred_boxes(r, cur_box, rt) \o rest
        /\ li' = i2
        /\ cur' = cur_box
        /\ last' = r.branch
        /\ taken' = taken \cup {cur_box}
        /\ split_of' = IF frag
                         THEN split_of @@ (l :> [parent |-> cur_box, side |-> "left"])
                                       @@ (rt :> [parent |-> cur_box, side |-> "right"])
                         ELSE split_of
        /\ IF r.appended
             THEN /\ box' = heap1
                  /\ pending_line' = pl1
                  /\ line_spans' = line_spans
                  /\ pc' = pc
             ELSE /\ box' = set_offsets(heap1, pl1)
                  /\ IF flush_in_bounds(pl1)
                       THEN /\ line_spans' = Append(line_spans, pl1.span)
                            /\ pending_line' = EmptyPendingLine
                            /\ pc' = pc
                       ELSE /\ line_spans' = line_spans
                            /\ pending_line' = pl1
                            /\ pc' = "failed"
        /\ UNCHANGED <<boxes, lines, elems, runVars, scans>>

\* scan_for_lines up to its loop: reset() and i = 0
LineScanStart ==
  /\ pc \in {"idle", "done"}
  /\ scans < MaxScans
  /\ scans' = scans + 1
  /\ pc' = "scan_lines"
  /\ line_spans' = <<>>
  /\ new_boxes' = <<>>
  /\ pending_line' = EmptyPendingLine
  /\ li' = 0
  /\ cur' = 0
  /\ last' = "none"
  /\ taken' = {}
  /\ before' = [box |-> box, boxes |-> boxes, elems |-> elems]
  /\ UNCHANGED <<flowVars, in_clump, clump_start, clump_end, out_boxes, ri, returned,
                 work_list, split_of>>

\* (Some(box), _): the box comes from the head of the work list
TakeFromWorkList ==
  /\ pc = "scan_lines"
  /\ work_list # <<>>
  /\ consider_box(Head(work_list), Tail(work_list), li)

\* the box list, were it consulted without looking at the work list first
TakeFromBoxList_BeforeWorkList ==
  /\ pc = "scan_lines"
  /\ Len(boxes) # 0
  /\ li < Len(boxes)
  /\ consider_box(boxes[li + 1], work_list, li + 1)

\* (None, _): the box is boxes[i]
TakeFromBoxList ==
  /\ pc = "scan_lines"
  /\ work_list = <<>>
  /\ Len(boxes) # 0
  /\ li < Len(boxes)
  /\ consider_box(boxes[li + 1], work_list, li + 1)

\* (None, _) with i past the end of the box list: boxes[i] fails
BoxIndexOutOfBounds ==
  /\ pc = "scan_lines"
  /\ work_list = <<>>
  /\ Len(boxes) # 0
  /\ li >= Len(boxes)
  /\ pc' = "failed"
  /\ UNCHANGED <<flowVars, runVars, lineVars, scans>>

\* (None, 0): break, the flush of a partially full line, and the two swaps
\* that store the results in the flow
LineScanCommit ==
  /\ pc = "scan_lines"
  /\ work_list = <<>>
  /\ Len(boxes) = 0
  /\ LET flush == pending_line.span.len > 0
         spans == IF flush THEN Append(line_spans, pending_line.span) ELSE line_spans
     IN  IF flush /\ ~flush_in_bounds(pending_line)
           THEN /\ pc' = "failed"
                /\ UNCHANGED <<flowVars, lineVars>>
           ELSE /\ pc' = "done"
                /\ box' = IF flush THEN set_offsets(box, pending_line) ELSE box
                /\ boxes' = new_boxes
                /\ lines' = spans
                /\ new_boxes' = <<>>
                /\ line_spans' = <<>>
                /\ pending_line' = IF flush THEN EmptyPendingLine ELSE pending_line
                /\ UNCHANGED <<elems, work_list, li, cur, last, taken, split_of>>
  /\ UNCHANGED <<runVars, scans>>

LineBoxSet ==
  {RenderBox("Generic", w, <<>>, 0) : w \in GenericWidths}
    \cup {RenderBox("Text", w, <<>>, 0) : w \in TextWidths}

\* no call of relation_of_clump_and_range has returned
NoRelation == [rel |-> "none", overlap |-> 0]

RunIdle ==
  /\ in_clump = FALSE
  /\ clump_start = 0
  /\ clump_end = 0
  /\ out_boxes = <<>>
  /\ ri = 0
  /\ before = [box |-> box, boxes |-> boxes, elems |-> elems]
  /\ returned = NoRelation

LineIdle ==
  /\ new_boxes = <<>>
  /\ work_list = <<>>
  /\ pending_line = EmptyPendingLine
  /\ line_spans = <<>>
  /\ li = 0
  /\ cur = 0
  /\ last = "none"
  /\ taken = {}
  /\ split_of = <<>>

\* a flow whose widths are assigned, and a new LineboxScanner for it
LineInit ==
  /\ \E n \in 0 .. MaxBoxes :
       /\ box \in [1 .. n -> LineBoxSet]
       /\ boxes = [k \in 1 .. n |-> k]
  /\ lines = <<>>
  /\ elems = <<>>
  /\ pc = "idle"
  /\ scans = 0
  /\ RunIdle
  /\ LineIdle

LineNext ==
  \/ LineScanStart
  \/ TakeFromWorkList
  \/ TakeFromBoxList
  \/ BoxIndexOutOfBounds
  \/ LineScanCommit

LineSpec == LineInit /\ [][LineNext]_vars

(***************************************************************************)
(* RenderBox and text interface used by the text run scanner               *)
(* (layout/box.rs, layout/text.rs, servo_text/util.rs).                    *)
(***************************************************************************)
Styles == {1, 2}

is_whitespace(ch) == ch \in {" ", "\n"}

RECURSIVE transform_text(_)
\* CompressWhitespaceNewline: a run of spaces and newlines becomes one space
transform_text(text) ==
  IF text = <<>> THEN <<>>
  ELSE LET init == transform_text(SubSeq(text, 1, Len(text) - 1))
           ch   == text[Len(text)]
       IN  IF ~is_whitespace(ch) THEN Append(init, ch)
           ELSE IF Len(text) > 1 /\ is_whitespace(text[Len(text) - 1]) THEN init
           ELSE Append(init, " ")

\* two UnscannedText boxes merge when their styles are the same
can_merge_with_box(a, b) == box[a].style = box[b].style

\* the width the text run gives the box made for it
RunWidth(text) == 10 * Len(text)

\* adapt_textbox_with_range(d, run, 0, run.text.len()): a new Text box over
\* the whole run, with the node and style of the box d belongs to
adapt_textbox_with_range(d, text) == RenderBox("Text", RunWidth(text), text, box[d].style)

(***************************************************************************)
(* TextRunScanner                                                          *)
(***************************************************************************)
\* boxes_can_be_coalesced, were it to ask can_merge_with_box of any two boxes
boxes_can_be_coalesced_any_kind(a, b) == can_merge_with_box(a, b)

\* (the boxes of a flow are distinct handles, so assert !ptr_eq(a, b) holds
\* for the neighbours scan_for_runs compares)
boxes_can_be_coalesced(a, b) ==
  /\ box[a].kind = "UnscannedText"
  /\ box[b].kind = "UnscannedText"
  /\ can_merge_with_box(a, b)

\* relation_of_clump_and_range with a strict test for RangeContainsClump
relation_of_clump_and_range_strict(range, cs, ce) ==
  LET range_start == range.start
      range_end   == U16(range.start + range.len)
  IN  IF range_end < cs
        THEN [rel |-> "RangeEntirelyBeforeClump", overlap |-> 0]
      ELSE IF range_start > ce
        THEN [rel |-> "RangeEntirelyAfterClump", overlap |-> 0]
      ELSE IF range_start = cs /\ range_end = ce
        THEN [rel |-> "RangeCoincidesClump", overlap |-> 0]
      ELSE IF range_start < cs /\ range_end > ce
        THEN [rel |-> "RangeContainsClump", overlap |-> 0]
      ELSE IF range_start >= cs /\ range_end <= ce
        THEN [rel |-> "RangeContainedByClump", overlap |-> 0]
      ELSE IF range_start < cs /\ range_end < ce
        THEN [rel |-> "RangeOverlapsClumpStart", overlap |-> range_end - cs]
      ELSE IF range_start > cs /\ range_end > ce
        THEN [rel |-> "RangeOverlapsClumpEnd", overlap |-> ce - range_start]
      ELSE [rel |-> "fail", overlap |-> 0]

\* relation_of_clump_and_range; range_end is start + len, clump_end is the
\* index of the last box of the clump
relation_of_clump_and_range(range, cs, ce) ==
  LET range_start == range.start
      range_end   == U16(range.start + range.len)
  IN  IF range_end < cs
        THEN [rel |-> "RangeEntirelyBeforeClump", overlap |-> 0]
      ELSE IF range_start > ce
        THEN [rel |-> "RangeEntirelyAfterClump", overlap |-> 0]
      ELSE IF range_start = cs /\ range_end = ce
        THEN [rel |-> "RangeCoincidesClump", overlap |-> 0]
      ELSE IF range_start <= cs /\ range_end >= ce
        THEN [rel |-> "RangeContainsClump", overlap |-> 0]
      ELSE IF range_start >= cs /\ range_end <= ce
        THEN [rel |-> "RangeContainedByClump", overlap |-> 0]
      ELSE IF range_start < cs /\ range_end < ce
        THEN [rel |-> "RangeOverlapsClumpStart", overlap |-> range_end - cs]
      ELSE IF range_start > cs /\ range_end > ce
        THEN [rel |-> "RangeOverlapsClumpEnd", overlap |-> ce - range_start]
      ELSE [rel |-> "fail", overlap |-> 0]

\* the match of flush_clump_to_list that fixes one NodeRange span for the
\* boxes a clump of several boxes elides (u16 arithmetic)
repair_span(span, cs, ce) ==
  LET clump_box_count == ce - cs + 1
      relation        == relation_of_clump_and_range(span, cs, ce)
  IN  CASE relation.rel = "RangeEntirelyAfterClump" ->
             [span EXCEPT !.start = U16(span.start - U16(clump_box_count))]
        [] relation.rel \in {"RangeCoincidesClump", "RangeContainedByClump"} ->
             [start |-> U16(cs), len |-> 1]
        [] relation.rel = "RangeContainsClump" ->
             [span EXCEPT !.len = U16(span.len - U16(clump_box_count))]
        [] relation.rel = "RangeOverlapsClumpStart" ->
             [span EXCEPT !.len = U16(span.len - U16(relation.overlap - 1))]
        [] relation.rel = "RangeOverlapsClumpEnd" ->
             [start |-> U16(cs), len |-> U16(span.len - U16(relation.overlap - 1))]
        [] OTHER -> span

\* is_text_clump, were it to match scanned text boxes as well
is_text_clump_any_text(b) == box[b].kind \in {"UnscannedText", "Text"}

is_text_clump(b) == box[b].kind = "UnscannedText"

\* run_str, were it the transformed text of the first box of the clump only
run_str_first(in_boxes, cs, ce) == transform_text(box[in_boxes[cs + 1]].text)

RECURSIVE run_str(_, _, _)
\* the transformed texts of in_boxes[cs .. ce], concatenated in order
run_str(in_boxes, cs, ce) ==
  IF ce < cs THEN <<>>
  ELSE run_str(in_boxes, cs, ce - 1) \o transform_text(box[in_boxes[ce + 1]].text)

\* flush_clump_to_list, were it to push the boxes of every clump as they are
flush_clump_unmerged(in_boxes, cs, ce) ==
  [ok |-> TRUE, out |-> SubSeq(in_boxes, cs + 1, ce + 1), heap |-> box, ranges |-> elems]

\* flush_clump_to_list for the clump [cs, ce] of in_boxes: whether it returns
\* (ok), the boxes it pushes to out_boxes, the heap and the element spans
flush_clump_to_list(in_boxes, cs, ce) ==
  LET is_singleton == cs = ce
      first        == in_boxes[cs + 1]
      new_box      == adapt_textbox_with_range(first, run_str(in_boxes, cs, ce))
  IN  CASE ~is_singleton /\ ~is_text_clump(first) ->
             [ok |-> FALSE, out |-> <<>>, heap |-> box, ranges |-> elems]
        [] is_singleton /\ ~is_text_clump(first) ->
             [ok |-> TRUE, out |-> <<first>>, heap |-> box, ranges |-> elems]
        [] is_singleton /\ is_text_clump(first) ->
             [ok |-> TRUE, out |-> <<NextId>>, heap |-> box @@ (NextId :> new_box),
              ranges |-> elems]
        [] ~is_singleton /\ is_text_clump(first) ->
             [ok     |-> \A k \in 1 .. Len(elems) :
                           relation_of_clump_and_range(elems[k], cs, ce).rel # "fail",
              out    |-> <<NextId>>,
              heap   |-> box @@ (NextId :> new_box),
              ranges |-> [k \in 1 .. Len(elems) |-> repair_span(elems[k], cs, ce)]]

\* the flush of the clump [clump_start, clump_end] within scan_for_runs
FlushClump ==
  LET f == flush_clump_to_list(boxes, clump_start, clump_end)
  IN  /\ box' = f.heap
      /\ elems' = f.ranges
      /\ out_boxes' = out_boxes \o f.out
      /\ pc' = IF f.ok THEN pc ELSE "failed"

\* scan_for_runs up to its loop: the two asserts hold, the flow's boxes are
\* taken out as in_boxes (they stay in `boxes` until the final swap)
RunScanStart ==
  /\ pc \in {"idle", "done"}
  /\ scans < MaxScans
  /\ ~in_clump
  /\ Len(boxes) > 0
  /\ pc' = "scan_runs"
  /\ scans' = scans + 1
  /\ out_boxes' = <<>>
  /\ ri' = 0
  /\ before' = [box |-> box, boxes |-> boxes, elems |-> elems]
  /\ UNCHANGED <<flowVars, in_clump, clump_start, clump_end, returned, lineVars>>

\* assert self.flow.inline().boxes.len() > 0 fails
RunScanEmptyFlow ==
  /\ pc \in {"idle", "done"}
  /\ scans < MaxScans
  /\ Len(boxes) = 0
  /\ pc' = "failed"
  /\ scans' = scans + 1
  /\ UNCHANGED <<flowVars, runVars, lineVars>>

can_coalesce_with_prev(i) == i > 0 /\ boxes_can_be_coalesced(boxes[i], boxes[i + 1])

\* (false, _): start a new clump at i
RunStartClump ==
  /\ pc = "scan_runs"
  /\ ri < Len(boxes)
  /\ ~in_clump
  /\ clump_start' = ri
  /\ clump_end' = ri
  /\ in_clump' = TRUE
  /\ ri' = ri + 1
  /\ UNCHANGED <<flowVars, pc, out_boxes, before, returned, lineVars, scans>>

\* (true, true): extend the clump to i
RunExtendClump ==
  /\ pc = "scan_runs"
  /\ ri < Len(boxes)
  /\ in_clump
  /\ can_coalesce_with_prev(ri)
  /\ clump_end' = ri
  /\ ri' = ri + 1
  /\ UNCHANGED <<flowVars, pc, in_clump, clump_start, out_boxes, before, returned,
                 lineVars, scans>>

\* (true, false): flush the clump and start a new one at i
RunClumpBoundary ==
  /\ pc = "scan_runs"
  /\ ri < Len(boxes)
  /\ in_clump
  /\ ~can_coalesce_with_prev(ri)
  /\ FlushClump
  /\ clump_start' = ri
  /\ clump_end' = ri
  /\ in_clump' = TRUE
  /\ ri' = ri + 1
  /\ UNCHANGED <<boxes, lines, before, returned, lineVars, scans>>

\* after the loop: flush the remaining clump and swap out_boxes into the flow
RunScanFinish ==
  /\ pc = "scan_runs"
  /\ ri = Len(boxes)
  /\ IF in_clump
       THEN LET f == flush_clump_to_list(boxes, clump_start, clump_end)
            IN  /\ box' = f.heap
                /\ elems' = f.ranges
                /\ pc' = IF f.ok THEN "done" ELSE "failed"
                /\ boxes' = IF f.ok THEN out_boxes \o f.out ELSE boxes
                /\ out_boxes' = IF f.ok THEN <<>> ELSE out_boxes
                /\ in_clump' = FALSE
       ELSE /\ pc' = "done"
            /\ boxes' = out_boxes
            /\ out_boxes' = <<>>
            /\ UNCHANGED <<box, elems, in_clump>>
  /\ UNCHANGED <<lines, clump_start, clump_end, ri, before, returned, lineVars, scans>>

\* the boxes of the flows scanned for runs: unscanned text of two styles,
\* and a box that is not text
RunBoxSet ==
  {RenderBox("UnscannedText", 0, <<"a">>, s) : s \in Styles}
    \cup {RenderBox("UnscannedText", 0, <<" ", "\n", "b">>, 1),
          RenderBox("Generic", 0, <<>>, 1)}

\* the spans an element of a flow of n boxes can have
SpanSet(n) == {[start |-> s, len |-> l] : s \in 0 .. n, l \in 1 .. n}

InBounds(r, n) == r.start + r.len <= n

Disjoint(r, q) == r.start + r.len <= q.start \/ q.start + q.len <= r.start

Contains(r, q) == r.start <= q.start /\ q.start + q.len <= r.start + r.len

WellNested(ranges) ==
  \A j, k \in 1 .. Len(ranges) :
    Disjoint(ranges[j], ranges[k]) \/ Contains(ranges[j], ranges[k])
      \/ Contains(ranges[k], ranges[j])

\* the spans are listed in the order of their elements in the document
Sorted(ranges) ==
  \A k \in 1 .. (Len(ranges) - 1) :
    \/ ranges[k].start < ranges[k + 1].start
    \/ ranges[k].start = ranges[k + 1].start /\ ranges[k].len >= ranges[k + 1].len

\* the element spans a flow of n boxes can have for m elements
ElemsSet(n, m) ==
  {e \in [1 .. m -> {r \in SpanSet(n) : InBounds(r, n)}] : WellNested(e) /\ Sorted(e)}

\* a flow as the box builder leaves it, and a new TextRunScanner for it
RunInit ==
  /\ \E n \in 0 .. MaxBoxes :
       /\ \E m \in 0 .. MaxElems : elems \in ElemsSet(n, m)
       /\ box \in [1 .. n -> RunBoxSet]
       /\ boxes = [k \in 1 .. n |-> k]
  /\ lines = <<>>
  /\ pc = "idle"
  /\ scans = 0
  /\ RunIdle
  /\ LineIdle

RunNext ==
  \/ RunScanStart
  \/ RunScanEmptyFlow
  \/ RunStartClump
  \/ RunExtendClump
  \/ RunClumpBoundary
  \/ RunScanFinish

RunSpec == RunInit /\ [][RunNext]_vars

(***************************************************************************)
(* relation_of_clump_and_range on its own: one call on a span and a clump. *)
(***************************************************************************)
\* the values of a u16 field of a BoxRange: the small ones and the largest
U16Set == (0 .. MaxBoxes + 1) \cup {65534, 65535}

\* a span and a clump [clump_start, clump_end] with clump_start <= clump_end,
\* as flush_clump_to_list hands them to relation_of_clump_and_range
RelInit ==
  /\ \E s \in U16Set, l \in U16Set : elems = <<[start |-> s, len |-> l]>>
  /\ \E cs \in 0 .. MaxBoxes + 1, ce \in 0 .. MaxBoxes + 1 :
       /\ cs <= ce
       /\ clump_start = cs
       /\ clump_end = ce
  /\ box = <<>>
  /\ boxes = <<>>
  /\ lines = <<>>
  /\ pc = "classify"
  /\ scans = 0
  /\ in_clump = TRUE
  /\ out_boxes = <<>>
  /\ ri = 0
  /\ before = [box |-> box, boxes |-> boxes, elems |-> elems]
  /\ returned = NoRelation
  /\ LineIdle

\* the call returns a relation, or reaches the final fail
RelClassify ==
  /\ pc = "classify"
  /\ returned' = relation_of_clump_and_range(elems[1], clump_start, clump_end)
  /\ pc' = IF returned'.rel = "fail" THEN "failed" ELSE "classified"
  /\ UNCHANGED <<flowVars, in_clump, clump_start, clump_end, out_boxes, ri, before,
                 lineVars, scans>>

RelNext == RelClassify

RelSpec == RelInit /\ [][RelNext]_vars

(***************************************************************************)
(* Properties of the line scan                                             *)
(***************************************************************************)
InSeq(b, seq) == \E k \in 1 .. Len(seq) : seq[k] = b

\* the spans ls cover [0, n) in order, with no gap and no overlap
Partition(ls, n) ==
  /\ ls = <<>> => n = 0
  /\ ls # <<>> =>
       /\ ls[1].start = 0
       /\ \A k \in 1 .. (Len(ls) - 1) : ls[k + 1].start = ls[k].start + ls[k].len
       /\ ls[Len(ls)].start + ls[Len(ls)].len = n

\* the run of scan_for_lines is over: it returned, or the task failed
ScanEnded == pc \in {"done", "failed"}

Fragment(b, side) ==
  CHOOSE f \in DOMAIN split_of : split_of[f].parent = b /\ split_of[f].side = side

HasFragments(b) == \E f \in DOMAIN split_of : split_of[f].parent = b

RECURSIVE Accounted(_)
\* box b is in the output, on the work list, or split into fragments that are
Accounted(b) ==
  \/ InSeq(b, new_boxes)
  \/ InSeq(b, work_list)
  \/ /\ HasFragments(b)
     /\ Accounted(Fragment(b, "left"))
     /\ Accounted(Fragment(b, "right"))

RECURSIVE Key(_)
\* the place of a box in the logical order of the input: the index of the
\* input box it comes from, then the side taken at each split (left: 0)
Key(b) ==
  IF b \in DOMAIN split_of
    THEN Append(Key(split_of[b].parent), IF split_of[b].side = "left" THEN 0 ELSE 1)
    ELSE <<b>>

KeyLess(p, q) ==
  \E k \in 1 .. Len(p) :
    /\ k <= Len(q)
    /\ p[k] < q[k]
    /\ \A j \in 1 .. (k - 1) : p[j] = q[j]

\* C1: once scan_for_lines is over, the flow's lines partition its boxes:
\* lines[0].start = 0, each line starts where the one before ends, the last
\* one ends at boxes.len(); for every input and every split outcome.
C1_LinesPartitionBoxes ==
  ScanEnded => (pc = "done" /\ Partition(lines, Len(boxes)))

\* C2: every span that flush_current_line emits has len >= 1.
C2_EmittedLinesNonEmpty ==
  /\ \A k \in 1 .. Len(line_spans) : line_spans[k].len >= 1
  /\ \A k \in 1 .. Len(lines) : lines[k].len >= 1

\* C3: after every turn of the main loop, each box taken from the box list or
\* the work list is in the output, back on the work list, or split into a left
\* and a right fragment that are; none is dropped.
C3_NoBoxDropped ==
  pc \in {"scan_lines", "failed"} => \A b \in taken : Accounted(b)

\* C4: on a flow with at least one box the main loop ends normally exactly
\* when the work list is empty and every box of the box list was consumed.
C4_LoopEndsWhenSourcesEmpty ==
  [][(pc = "scan_lines" /\ Len(boxes) >= 1)
       => ((work_list = <<>> /\ li = Len(boxes)) <=> pc' = "done")]_vars

\* C5: an unsplittable box that did not fit on a non-empty line is the next
\* box considered after the flush, and is pushed as the first box of the
\* following line.
C5_RejectedBoxRetried ==
  [][(pc = "scan_lines" /\ last = "cannot_split_box" /\ pc' = "scan_lines")
       => (/\ cur' = cur
           /\ new_boxes' = Append(new_boxes, cur)
           /\ pending_line'.span = [start |-> Len(new_boxes), len |-> 1])]_vars

\* C6: every box of a flushed line, as the output sequence holds it, has
\* origin.x equal to the sum of the widths of the boxes before it on the line.
C6_OffsetsArePrefixSums ==
  pc = "scan_lines" =>
    \A k \in 1 .. Len(line_spans) :
      \A i \in line_spans[k].start .. (line_spans[k].start + line_spans[k].len - 1) :
        box[new_boxes[i + 1]].x = SumWidths(new_boxes, line_spans[k].start, i)

\* C7: a flow that holds only an unsplittable box wider than the container
\* ends line scanning with the single line {0,1} and the box at x = 0.
C7_WideBoxAlone ==
  (/\ ScanEnded
   /\ DOMAIN box = {1}
   /\ ~can_split(1)
   /\ box[1].w > FlowWidth)
    => (/\ pc = "done"
        /\ boxes = <<1>>
        /\ lines = <<[start |-> 0, len |-> 1]>>
        /\ box[1].x = 0)

C8_RightIsDeferred ==
  (pc = "scan_lines" /\ last \in {"SplitDidFit", "SplitDidNotFit_empty"}) =>
    /\ work_list # <<>>
    /\ Head(work_list) \in DOMAIN split_of
    /\ split_of[Head(work_list)] = [parent |-> cur, side |-> "right"]
    /\ new_boxes[Len(new_boxes)] = Fragment(cur, "left")

C8_OutputInLogicalOrder ==
  pc = "scan_lines" =>
    \A k \in 1 .. (Len(new_boxes) - 1) : KeyLess(Key(new_boxes[k]), Key(new_boxes[k + 1]))

C8_WorkListFirstStep ==
  (pc = "scan_lines" /\ work_list # <<>>) =>
     /\ cur' = Head(work_list)
     /\ \E pre \in {<<>>} \cup {<<b>> : b \in DOMAIN box'} :
          work_list' = pre \o Tail(work_list)

\* C8: the work list is consulted before the box list, so the `right` fragment
\* a split defers is the very next box handed to try_append_to_line, and the
\* output keeps the logical order of the input.
C8_WorkListDrainedFirst ==
  /\ [](C8_RightIsDeferred /\ C8_OutputInLogicalOrder)
  /\ [][C8_WorkListFirstStep]_vars

\* a deferred right fragment was taken from the work list and pushed behind
\* its left fragment
C8_Witness ==
  /\ pc = "scan_lines"
  /\ cur \in DOMAIN split_of
  /\ split_of[cur].side = "right"
  /\ Len(new_boxes) >= 2
  /\ new_boxes[Len(new_boxes)] = cur
  /\ new_boxes[Len(new_boxes) - 1] = Fragment(split_of[cur].parent, "left")

(***************************************************************************)
(* Properties of the text run scan                                         *)
(***************************************************************************)
\* C9: after scan_for_runs no two adjacent boxes of the flow are coalescible,
\* and no UnscannedText box is left: each was replaced by a Text box.
C9_NoAdjacentCoalescible ==
  pc = "done" =>
    /\ \A k \in 1 .. (Len(boxes) - 1) : ~boxes_can_be_coalesced(boxes[k], boxes[k + 1])
    /\ \A k \in 1 .. Len(boxes) : box[boxes[k]].kind # "UnscannedText"

\* a scan that coalesced a clump and left two text boxes side by side
C9_Witness ==
  /\ pc = "done"
  /\ scans = 1
  /\ Len(boxes) < Len(before.boxes)
  /\ \E k \in 1 .. (Len(boxes) - 1) :
       box[boxes[k]].kind = "Text" /\ box[boxes[k + 1]].kind = "Text"

\* C10: scan_for_runs on a flow that was already scanned leaves the boxes
\* (the same boxes, in the same order) and every element span as they were.
C10_SecondScanIsNoOp ==
  (pc = "done" /\ scans >= 2) =>
    /\ boxes = before.boxes
    /\ elems = before.elems
    /\ \A k \in 1 .. Len(boxes) : box[boxes[k]] = before.box[boxes[k]]

\* a second scan ended on a flow that holds text runs and element spans
C10_Witness ==
  /\ pc = "done"
  /\ scans = 2
  /\ elems # <<>>
  /\ Len(boxes) >= 2
  /\ \E k \in 1 .. Len(boxes) : box[boxes[k]].kind = "Text"

\* the input boxes at 1-based places j and j + 1 were in one clump
InputCoalesced(j) == boxes_can_be_coalesced(before.boxes[j], before.boxes[j + 1])

\* the index in the output of the box made for the clump of input box i
OutIdx(i) == Cardinality({j \in 1 .. i : ~InputCoalesced(j)})

\* the span of the output boxes made for the input boxes a span covers
Image(r) ==
  [start |-> OutIdx(r.start),
   len   |-> OutIdx(r.start + r.len - 1) - OutIdx(r.start) + 1]

\* the span covers only boxes that lie after a clump of several boxes
AfterCoalescedClump(r) == \E j \in 1 .. (r.start - 1) : InputCoalesced(j)

\* C11: after scan_for_runs an element span that covered only boxes lying
\* after a coalesced clump covers the same boxes in the new box sequence
\* ([A,A,B] with span {2,1} gives [Text,B] and span {1,1}).
C11_SpanAfterClumpFollowsBoxes ==
  (pc = "done" /\ scans = 1) =>
    \A k \in 1 .. Len(elems) :
      AfterCoalescedClump(before.elems[k]) => elems[k] = Image(before.elems[k])

\* the next step of scan_for_runs flushes a clump of several boxes
FlushesClump ==
  /\ pc = "scan_runs"
  /\ in_clump
  /\ clump_end > clump_start
  /\ ri = Len(boxes) \/ ~can_coalesce_with_prev(ri)

\* C12: an element span that covers exactly the boxes of a clump of several
\* boxes is classified Coincides and is {clump start, 1} once the clump is
\* flushed (two coalescible text boxes with span {0,2} give span {0,1}).
C12_CoincidingSpanBecomesOne ==
  [][FlushesClump =>
       \A k \in 1 .. Len(elems) :
         (elems[k].start = clump_start /\ elems[k].len = clump_end - clump_start + 1)
           => /\ relation_of_clump_and_range(elems[k], clump_start, clump_end).rel
                   = "RangeCoincidesClump"
              /\ elems'[k] = [start |-> clump_start, len |-> 1]]_vars

\* C13: after scan_for_runs over well-nested in-bounds element spans every
\* element span R has R.start + R.len <= boxes.len() for the new boxes.
C13_SpansInBoundsAfterScan ==
  (pc = "done" /\ scans = 1) =>
    \A k \in 1 .. Len(elems) : elems[k].start + elems[k].len <= Len(boxes)

\* C14: element spans that were pairwise disjoint or nested before
\* scan_for_runs are pairwise disjoint or nested after it.
C14_RepairPreservesNesting ==
  (pc = "done" /\ scans = 1 /\ WellNested(before.elems)) => WellNested(elems)

\* the relations of ClumpRangeRelation
Relations ==
  {"RangeEntirelyBeforeClump", "RangeEntirelyAfterClump", "RangeCoincidesClump",
   "RangeContainsClump", "RangeContainedByClump", "RangeOverlapsClumpStart",
   "RangeOverlapsClumpEnd"}

\* the condition of relation rel for a span from rs to re and a clump cs..ce
Condition(rel, rs, re, cs, ce) ==
  CASE rel = "RangeEntirelyBeforeClump" -> re < cs
    [] rel = "RangeEntirelyAfterClump"  -> rs > ce
    [] rel = "RangeCoincidesClump"      -> rs = cs /\ re = ce
    [] rel = "RangeContainsClump"       -> rs <= cs /\ re >= ce
    [] rel = "RangeContainedByClump"    -> rs >= cs /\ re <= ce
    [] rel = "RangeOverlapsClumpStart"  -> rs < cs /\ re < ce
    [] rel = "RangeOverlapsClumpEnd"    -> rs > cs /\ re > ce
    [] OTHER                            -> FALSE

\* C15: for every span and every clump with clump_start <= clump_end,
\* relation_of_clump_and_range returns one of the seven relations, whose
\* condition holds, never reaching the final fail; a span that meets the
\* condition of Coincides is classified Coincides and not Contains or
\* ContainedBy, and a span that meets the condition of Contains or ContainedBy
\* is not classified as one of the two overlap cases.
C15_ClassifiesEveryPair ==
  pc \in {"classified", "failed"} =>
    LET rs == elems[1].start
        re == U16(elems[1].start + elems[1].len)
        cs == clump_start
        ce == clump_end
    IN  /\ pc = "classified"
        /\ returned.rel \in Relations
        /\ Condition(returned.rel, rs, re, cs, ce)
        /\ Condition("RangeCoincidesClump", rs, re, cs, ce)
             => returned.rel = "RangeCoincidesClump"
        /\ returned.rel \in {"RangeOverlapsClumpStart", "RangeOverlapsClumpEnd"}
             => /\ ~Condition("RangeContainsClump", rs, re, cs, ce)
                /\ ~Condition("RangeContainedByClump", rs, re, cs, ce)

\* a span that also meets the condition of Contains was classified Coincides
C15_Witness ==
  /\ pc = "classified"
  /\ returned.rel = "RangeCoincidesClump"
  /\ Condition("RangeContainsClump", elems[1].start,
               U16(elems[1].start + elems[1].len), clump_start, clump_end)

\* the 1-based places of the first and of the last input box of the clump
\* that holds the input box at place p
ClumpFirst(p) ==
  CHOOSE f \in 1 .. p :
    /\ \A j \in f .. (p - 1) : InputCoalesced(j)
    /\ f > 1 => ~InputCoalesced(f - 1)

ClumpLast(p) ==
  CHOOSE l \in p .. Len(before.boxes) :
    /\ \A j \in p .. (l - 1) : InputCoalesced(j)
    /\ l < Len(before.boxes) => ~InputCoalesced(l)

RECURSIVE ClumpText(_, _)
\* the transformed texts of the input boxes at places f .. l, in input order
ClumpText(f, l) ==
  IF l < f THEN <<>>
  ELSE transform_text(before.box[before.boxes[f]].text) \o ClumpText(f + 1, l)

\* C16: scan_for_runs emits one box per maximal clump of the input, in input
\* order: the output has as many boxes as the input has clumps, a box that is
\* not text stands unchanged at the place of its clump, and a clump of text
\* boxes (one or several) gives one new Text box whose text is the transformed
\* texts of the boxes of the clump, concatenated in input order.
C16_OneBoxPerClump ==
  (pc = "done" /\ scans = 1) =>
    LET n == Len(before.boxes)
    IN  /\ Len(boxes) = OutIdx(n - 1) + 1
        /\ \A p \in 1 .. n :
             LET b == before.boxes[p]
                 o == boxes[OutIdx(p - 1) + 1]
             IN  IF before.box[b].kind = "UnscannedText"
                   THEN /\ o \notin DOMAIN before.box
                        /\ box[o].kind = "Text"
                        /\ box[o].text = ClumpText(ClumpFirst(p), ClumpLast(p))
                   ELSE /\ o = b
                        /\ box[o] = before.box[b]

\* a scan made one box of two text boxes with different texts, next to a box
\* that is not text
C16_Witness ==
  /\ pc = "done"
  /\ scans = 1
  /\ Len(before.boxes) = 3
  /\ Len(boxes) = 2
  /\ \E k \in 1 .. 2 : box[boxes[k]].text = <<" ", "b", "a">>
  /\ \E k \in 1 .. 2 : box[boxes[k]].kind = "Generic"

\* C17: every run of scan_for_lines yields lines and x-offsets, and a run on
\* the box sequence an earlier run left (after reset) yields the same lines
\* and the same x-offset for every box as the earlier run did.
C17_RerunYieldsSameLines ==
  [][/\ ScanEnded' => pc' = "done"
     /\ (pc = "scan_lines" /\ pc' = "done" /\ scans = 2 /\ boxes' = before.boxes)
          => /\ lines' = lines
             /\ \A k \in 1 .. Len(boxes') :
                  box'[boxes'[k]].x = before.box[boxes'[k]].x]_vars

\* C18: a box for which split_to_width returns SplitDidNotFit on a line that
\* is not empty is not appended: the turn pushes nothing to the output, the
\* line is flushed as it was, no fragment is kept and the box itself is at the
\* head of the work list; the next turn considers that same box, on an empty
\* line.
C18_DidNotFitDefersOriginal ==
  [][/\ (pc = "scan_lines" /\ pending_line.span.len > 0 /\ last' = "SplitDidNotFit")
          => /\ new_boxes' = new_boxes
             /\ DOMAIN box' = DOMAIN box
             /\ split_of' = split_of
             /\ work_list' # <<>>
             /\ Head(work_list') = cur'
             /\ cur' \in DOMAIN box
             /\ \/ pc' = "failed" /\ pending_line' = pending_line
                \/ /\ pc' = "scan_lines"
                   /\ line_spans' = Append(line_spans, pending_line.span)
                   /\ pending_line' = EmptyPendingLine
     /\ (pc = "scan_lines" /\ last = "SplitDidNotFit")
          => /\ pending_line.span.len = 0
             /\ cur' = cur]_vars

\* the line was flushed after SplitDidNotFit and the box waits on the work list
C18_Witness ==
  /\ pc = "scan_lines"
  /\ last = "SplitDidNotFit"
  /\ work_list = <<cur>>
  /\ pending_line = EmptyPendingLine
  /\ line_spans # <<>>

\* the boxes of heap h are those of heap g, but for their origin.x
OnlyOffsetsWritten(g, h) ==
  \A id \in DOMAIN g : id \in DOMAIN h /\ h[id] = [g[id] EXCEPT !.x = h[id].x]

\* C19: while scan_for_lines runs its loop the flow's boxes and lines stay as
\* they are and the boxes of the flow change in their origin.x only; the one
\* step that stores the results sets the flow's boxes to the output boxes and
\* the flow's lines to the line spans the scanner collected, and leaves the
\* scanner's two sequences empty.
C19_CollectThenSwap ==
  [][/\ (pc' = "scan_lines" \/ pc' = "failed")
          => /\ boxes' = boxes
             /\ lines' = lines
             /\ OnlyOffsetsWritten(box, box')
     /\ (pc = "scan_lines" /\ pc' = "done")
          => /\ boxes' = new_boxes
             /\ lines' = IF pending_line.span.len > 0
                           THEN Append(line_spans, pending_line.span)
                           ELSE line_spans
             /\ OnlyOffsetsWritten(box, box')
             /\ new_boxes' = <<>>
             /\ line_spans' = <<>>]_vars

\* the loop has flushed a line and collected output that differs from the
\* flow's boxes, which it has not touched
C19_Witness ==
  /\ pc = "scan_lines"
  /\ line_spans # <<>>
  /\ new_boxes # <<>>
  /\ new_boxes # boxes
  /\ boxes = before.boxes
  /\ lines = <<>>
  /\ \E k \in 1 .. Len(boxes) : box[boxes[k]].x # before.box[boxes[k]].x

\* C20: every clump of more than one box that scan_for_runs builds, and so
\* every such clump flush_clump_to_list is called with, holds UnscannedText
\* boxes only; scan_for_runs fails on an empty flow and on no other.
C20_ClumpOfSeveralIsText ==
  /\ (pc = "scan_runs" /\ in_clump /\ clump_start < clump_end)
       => \A i \in clump_start .. clump_end : box[boxes[i + 1]].kind = "UnscannedText"
  /\ pc = "failed" => Len(boxes) = 0

\* the loop is over a flow that has a box that is not text, and
\* flush_clump_to_list is about to be called with a clump of two boxes or more
C20_Witness ==
  /\ pc = "scan_runs"
  /\ ri = Len(boxes)
  /\ in_clump
  /\ clump_start < clump_end
  /\ \E k \in 1 .. Len(boxes) : box[boxes[k]].kind = "Generic"

\* the step is a turn of the main loop in which try_append_to_line met
\* CannotSplit from split_to_width
CannotSplitTurn ==
  /\ pc = "scan_lines"
  /\ pc' # "done"
  /\ <<li, work_list, line_spans>>' # <<li, work_list, line_spans>>
  /\ last' = "CannotSplit"

\* C21: when split_to_width returns CannotSplit for a box that can_split(),
\* nothing is appended (the output boxes are as they were, no fragment is kept,
\* nothing is put on the work list, the line is flushed as it was) and the
\* scan goes on without failing; on an empty line the box makes no progress:
\* it is in no line and not on the work list.
C21_CannotSplitAppendsNothing ==
  [][CannotSplitTurn
       => /\ can_split(cur')
          /\ new_boxes' = new_boxes
          /\ DOMAIN box' = DOMAIN box
          /\ work_list' = IF work_list # <<>> THEN Tail(work_list) ELSE work_list
          /\ pc' = "scan_lines"
          /\ line_spans' = Append(line_spans, pending_line.span)
          /\ pending_line.span.len = 0
               => ~InSeq(cur', new_boxes') /\ ~InSeq(cur', work_list')]_vars

\* the match of flush_clump_to_list subtracts for this span without wrapping
NoWrap(span, cs, ce) ==
  LET clump_box_count == ce - cs + 1
      relation        == relation_of_clump_and_range(span, cs, ce)
  IN  CASE relation.rel = "RangeEntirelyAfterClump" -> clump_box_count <= span.start
        [] relation.rel = "RangeContainsClump" -> clump_box_count <= span.len
        [] relation.rel \in {"RangeOverlapsClumpStart", "RangeOverlapsClumpEnd"} ->
             relation.overlap >= 1 /\ relation.overlap - 1 <= span.len
        [] OTHER -> TRUE

\* C22: when a clump of several boxes is flushed, no subtraction of the repair
\* of an element span wraps: clump_box_count is at most the start or len it is
\* subtracted from, overlap is at least 1 and overlap - 1 at most len, also
\* for spans that an earlier clump of the scan has shifted.
C22_RepairDoesNotWrap ==
  [][(FlushesClump /\ scans = 1)
       => \A k \in 1 .. Len(elems) : NoWrap(elems[k], clump_start, clump_end)]_vars

\* C23: scan_for_lines never indexes a box sequence out of bounds: when the
\* main loop takes boxes[i] (empty work list, a flow with boxes), i is less
\* than boxes.len(), and no run ends in the failure that an index past the
\* end raises, in the main loop or in flush_current_line.
C23_NoIndexOutOfBounds ==
  /\ (pc = "scan_lines" /\ work_list = <<>> /\ Len(boxes) # 0) => li < Len(boxes)
  /\ pc # "failed"

\* the sum of the widths of the output boxes a span covers
SpanWidth(span) == SumWidths(new_boxes, span.start, span.start + span.len)

====
